---- MODULE Spec2Model ----
(***************************************************************************)
(* Noughts & Crosses: the Board of src/ttt.py (cells, vectors, set_cell,   *)
(* winning_move) and its rule-ordered move generator generate_move.        *)
(***************************************************************************)
EXTENDS Integers, Sequences, FiniteSets

VARIABLES board, turn, last, movefunc

vars == <<board, turn, last, movefunc>>

(* ---------------------------------------------------------------- bounds *)

\* set_cell is called with positions -(MaxPos+1) .. MaxPos
MaxPos == 9

Positions == (0 - (MaxPos + 1)) .. MaxPos

(* ------------------------------------------------------------- constants *)

\* Cell.__owner of an empty cell, and the default of set_cell's player
None == "None"

\* a tactic (or generate_move) returning None
NoMove == -1

\* len(self.board)
NumCells == 9

\* self.players
players == <<"X", "O">>

Indexes == 0 .. (NumCells - 1)

Min(S) == CHOOSE x \in S : \A y \in S : x <= y

(* ------------------------------------------------------------------ Cell *)

\* Cell.empty
empty(b, i) == b[i] = None

\* Cell.player (getter)
player(b, i) == IF empty(b, i) THEN "empty" ELSE b[i]

(* ----------------------------------------------------------------- Board *)

\* a slip: the parity of the turn taken the wrong way round
player_up_swapped(t) == players[((t + 1) % 2) + 1]

\* Board.turn is the variable turn; Board.player_up
player_up(t) == players[(t % 2) + 1]

first_player == players[1]

second_player == players[2]

rows == << <<0, 1, 2>>, <<3, 4, 5>>, <<6, 7, 8>> >>

columns == << <<0, 3, 6>>, <<1, 4, 7>>, <<2, 5, 8>> >>

diagonals == << <<0, 4, 8>>, <<2, 4, 6>> >>

vectors == rows \o columns \o diagonals

\* cell in vector
InVector(c, v) == \E k \in 1..Len(v) : v[k] = c

\* the vectors of vectors() that contain the cell, in that order, per cell
VectorsForCell == [c \in Indexes |-> SelectSeq(vectors, LAMBDA v : InVector(c, v))]

vectors_for_cell(c) == VectorsForCell[c]

\* the indexes of the empty cells, ascending
empty_cells(b) == {i \in Indexes : empty(b, i)}

\* stats.get(key, 0) of the dict built by __vector_stats
vector_stats(b, v) ==
    [key \in {"X", "O", "empty"} |->
        (IF player(b, v[1]) = key THEN 1 ELSE 0)
        + (IF player(b, v[2]) = key THEN 1 ELSE 0)
        + (IF player(b, v[3]) = key THEN 1 ELSE 0)]

\* a slip: every vector of the board is looked at, not those of the cell
winning_move_any_vector(b, c) ==
    \E k \in 1..Len(vectors) : vector_stats(b, vectors[k])[player(b, c)] = 3

winning_move(b, c) ==
    \E k \in 1..Len(vectors_for_cell(c)) :
        vector_stats(b, vectors_for_cell(c)[k])[player(b, c)] = 3

opponent(p) == IF p = players[1] THEN players[2] ELSE players[1]

\* self.board[position]: Python list indexing, negative positions count
\* from the end, anything outside -9..8 raises IndexError
ListIndex(position) ==
    IF position >= 0 /\ position < NumCells THEN position
    ELSE IF position < 0 /\ position >= 0 - NumCells THEN position + NumCells
    ELSE NoMove

(* ------------------------------------------------------ the move generator *)

\* Board.__winnable_vector
winnable_vector(b, v, p) ==
    vector_stats(b, v)[p] = 2 /\ vector_stats(b, v)["empty"] = 1

\* Board.__winning_move_for: the first empty cell of the first winnable
\* vector in the order of vectors(), None when there is none
winning_move_for(b, p) ==
    LET ws == {k \in 1..Len(vectors) : winnable_vector(b, vectors[k], p)}
    IN  IF ws = {} THEN NoMove
        ELSE LET v == vectors[Min(ws)]
             IN  v[Min({j \in 1..Len(v) : empty(b, v[j])})]

\* a slip: one vector with a cell of the player is taken for a fork
move_makes_fork_single(b, c, p) ==
    \E k \in 1..Len(vectors_for_cell(c)) :
        /\ vector_stats(b, vectors_for_cell(c)[k])[p] = 1
        /\ vector_stats(b, vectors_for_cell(c)[k])["empty"] = 2

\* Board.__move_makes_fork
move_makes_fork(b, c, p) ==
    LET vs == vectors_for_cell(c)
        count == Cardinality({k \in 1..Len(vs) :
                     /\ vector_stats(b, vs[k])[p] = 1
                     /\ vector_stats(b, vs[k])["empty"] = 2})
    IN  count >= 2

\* Board.__possible_wins
possible_wins(b, p) ==
    {c \in empty_cells(b) :
        \E k \in 1..Len(vectors_for_cell(c)) :
            vector_stats(b, vectors_for_cell(c)[k])[opponent(p)] = 0}

\* for candidate in order: if candidate in S: return candidate
FirstIn(order, S) ==
    LET ks == {k \in 1..Len(order) : order[k] \in S}
    IN  IF ks = {} THEN NoMove ELSE order[Min(ks)]

\* Each tactic is the set of the values the method can return.

\* a slip: the corner is taken whatever the turn
first_move_any_turn(b, t) == {0, 2, 6, 8}

\* Board.__first_move
first_move(b, t) == IF t = 0 THEN {0, 2, 6, 8} ELSE {NoMove}

\* Board.__take_winning_move
take_winning_move(b, t) == {winning_move_for(b, player_up(t))}

\* a slip: the winning move of the player is looked for a second time
block_winning_move_own(b, t) == {winning_move_for(b, player_up(t))}

\* Board.__block_winning_move
block_winning_move(b, t) == {winning_move_for(b, opponent(player_up(t)))}

\* a slip: one of the forking cells is picked at random
create_fork_random(b, t) ==
    IF \E c \in empty_cells(b) : move_makes_fork(b, c, player_up(t))
    THEN {c \in empty_cells(b) : move_makes_fork(b, c, player_up(t))}
    ELSE {NoMove}

\* Board.__create_fork
create_fork(b, t) ==
    LET fs == {c \in empty_cells(b) : move_makes_fork(b, c, player_up(t))}
    IN  IF fs = {} THEN {NoMove} ELSE {Min(fs)}

\* a slip: the number of empty cells is not looked at
block_diag_fork_any_turn(b, t) ==
    IF \E k \in 1..Len(diagonals) :
          /\ player(b, diagonals[k][2]) = player_up(t)
          /\ player(b, diagonals[k][1]) = opponent(player_up(t))
          /\ player(b, diagonals[k][3]) = opponent(player_up(t))
    THEN {1, 3, 5, 7}
    ELSE {NoMove}

\* a slip: the special case is looked for one move late
block_diag_fork_late(b, t) ==
    IF /\ Cardinality(empty_cells(b)) = 5
       /\ \E k \in 1..Len(diagonals) :
             /\ player(b, diagonals[k][2]) = player_up(t)
             /\ player(b, diagonals[k][1]) = opponent(player_up(t))
             /\ player(b, diagonals[k][3]) = opponent(player_up(t))
    THEN {1, 3, 5, 7}
    ELSE {NoMove}

\* Board.__block_diag_fork
block_diag_fork(b, t) ==
    LET p == player_up(t)
    IN  IF /\ Cardinality(empty_cells(b)) = 6
           /\ \E k \in 1..Len(diagonals) :
                 /\ player(b, diagonals[k][2]) = p
                 /\ player(b, diagonals[k][1]) = opponent(p)
                 /\ player(b, diagonals[k][3]) = opponent(p)
        THEN {1, 3, 5, 7}
        ELSE {NoMove}

\* a slip: the forks of the opponent are not looked for
block_fork_never(b, t) == {NoMove}

\* Board.__block_fork
block_fork(b, t) ==
    LET fs == {c \in empty_cells(b) :
                  move_makes_fork(b, c, opponent(player_up(t)))}
    IN  IF fs = {} THEN {NoMove} ELSE {Min(fs)}

preferred_move_order == <<4, 0, 2, 6, 8, 1, 3, 5, 7>>

\* a slip: the moves that could still win are not tried first
default_move_first_empty(b, t) == {FirstIn(preferred_move_order, empty_cells(b))}

\* Board.__default_move
default_move(b, t) ==
    LET could_wins == possible_wins(b, player_up(t))
    IN  IF FirstIn(preferred_move_order, could_wins) # NoMove
        THEN {FirstIn(preferred_move_order, could_wins)}
        ELSE {FirstIn(preferred_move_order, empty_cells(b))}

\* the list of tactics generate_move walks through
NumTactics == 7

\* a slip: the block is tried before the win
tactic_block_first(k, b, t) ==
    CASE k = 1 -> first_move(b, t)
      [] k = 2 -> block_winning_move(b, t)
      [] k = 3 -> take_winning_move(b, t)
      [] k = 4 -> create_fork(b, t)
      [] k = 5 -> block_diag_fork(b, t)
      [] k = 6 -> block_fork(b, t)
      [] OTHER -> default_move(b, t)

\* a slip: the fork is tried before the block
tactic_fork_first(k, b, t) ==
    CASE k = 1 -> first_move(b, t)
      [] k = 2 -> take_winning_move(b, t)
      [] k = 3 -> create_fork(b, t)
      [] k = 4 -> block_winning_move(b, t)
      [] k = 5 -> block_diag_fork(b, t)
      [] k = 6 -> block_fork(b, t)
      [] OTHER -> default_move(b, t)

tactic(k, b, t) ==
    CASE k = 1 -> first_move(b, t)
      [] k = 2 -> take_winning_move(b, t)
      [] k = 3 -> block_winning_move(b, t)
      [] k = 4 -> create_fork(b, t)
      [] k = 5 -> block_diag_fork(b, t)
      [] k = 6 -> block_fork(b, t)
      [] OTHER -> default_move(b, t)

\* the loop of generate_move from tactic k on: the pairs <<j, move>> such
\* that tactic j is the first to return a move, <<0, None>> when the loop
\* runs off its end
RECURSIVE run_tactics(_, _, _)
run_tactics(k, b, t) ==
    IF k > NumTactics THEN {<<0, NoMove>>}
    ELSE LET r == tactic(k, b, t)
         IN  {<<k, m>> : m \in r \ {NoMove}}
             \cup (IF NoMove \in r THEN run_tactics(k + 1, b, t) ELSE {})

\* Board.generate_move
generate_move(b, t) == run_tactics(1, b, t)

(* -------------------- the variant with a fork count of exactly 2 (spec, 9) *)

\* __move_makes_fork with the test count == 2
move_makes_fork_exact(b, c, p) ==
    LET vs == vectors_for_cell(c)
        count == Cardinality({k \in 1..Len(vs) :
                     /\ vector_stats(b, vs[k])[p] = 1
                     /\ vector_stats(b, vs[k])["empty"] = 2})
    IN  count = 2

\* __create_fork over that test
create_fork_exact(b, t) ==
    LET fs == {c \in empty_cells(b) : move_makes_fork_exact(b, c, player_up(t))}
    IN  IF fs = {} THEN {NoMove} ELSE {Min(fs)}

\* __block_fork over that test
block_fork_exact(b, t) ==
    LET fs == {c \in empty_cells(b) :
                  move_makes_fork_exact(b, c, opponent(player_up(t)))}
    IN  IF fs = {} THEN {NoMove} ELSE {Min(fs)}

\* the list of tactics, with the fork rules whose number is in rules (4 the
\* create-fork rule, 6 the block-fork rule) over that test
tactic_exact(rules, k, b, t) ==
    CASE k = 4 /\ 4 \in rules -> create_fork_exact(b, t)
      [] k = 6 /\ 6 \in rules -> block_fork_exact(b, t)
      [] OTHER -> tactic(k, b, t)

RECURSIVE run_tactics_exact(_, _, _, _)
run_tactics_exact(rules, k, b, t) ==
    IF k > NumTactics THEN {<<0, NoMove>>}
    ELSE LET r == tactic_exact(rules, k, b, t)
         IN  {<<k, m>> : m \in r \ {NoMove}}
             \cup (IF NoMove \in r THEN run_tactics_exact(rules, k + 1, b, t) ELSE {})

\* generate_move of the variant
generate_move_exact(rules, b, t) == run_tactics_exact(rules, 1, b, t)

(* ------------------------------------------------------------------ Init *)

Init ==
    /\ board = [i \in Indexes |-> None]
    /\ turn = 0
    /\ last = [op |-> "init", position |-> 0, player |-> None,
               err |-> "none", ret |-> NoMove, tactic |-> 0]
    /\ movefunc = <<"generate_move", "generate_move">>

(* --------------------------------------------------------------- set_cell *)

\* last is the outcome of the latest call: the operation, the position it was
\* given, the player argument of a call that claimed a cell, the error raised
\* ("none" for a call that returned), the index of the returned cell or the
\* returned move, and the number of the tactic that produced the move.
Outcome(op, position, pl, err, ret, k) ==
    [op |-> op, position |-> position, player |-> pl,
     err |-> err, ret |-> ret, tactic |-> k]

\* a slip: the setter of Cell.player does not look whether the cell is empty
SetCellOverwrites(position, pl) ==
    IF ListIndex(position) = NoMove
    THEN /\ last' = Outcome("set_cell", position, None, "IndexError", NoMove, 0)
         /\ UNCHANGED <<board, turn>>
    ELSE /\ board' = [board EXCEPT ![ListIndex(position)] =
                         IF pl = None THEN player_up(turn) ELSE pl]
         /\ turn' = turn + 1
         /\ last' = Outcome("set_cell", position, pl, "none", ListIndex(position), 0)

\* a slip: turn is increased before the cell is marked
SetCellCountsFirst(position, pl) ==
    IF ListIndex(position) = NoMove
    THEN /\ last' = Outcome("set_cell", position, None, "IndexError", NoMove, 0)
         /\ UNCHANGED <<board, turn>>
    ELSE IF empty(board, ListIndex(position))
    THEN /\ board' = [board EXCEPT ![ListIndex(position)] =
                         IF pl = None THEN player_up(turn) ELSE pl]
         /\ turn' = turn + 1
         /\ last' = Outcome("set_cell", position, pl, "none", ListIndex(position), 0)
    ELSE /\ last' = Outcome("set_cell", position, None, "Exception", NoMove, 0)
         /\ turn' = turn + 1
         /\ UNCHANGED board

\* Board.set_cell, with the setter of Cell.player it calls
SetCell(position, pl) ==
    LET p == IF pl = None THEN player_up(turn) ELSE pl
        idx == ListIndex(position)
    IN  IF idx = NoMove
        THEN /\ last' = Outcome("set_cell", position, None, "IndexError", NoMove, 0)
             /\ UNCHANGED <<board, turn>>
        ELSE IF empty(board, idx)
        THEN /\ board' = [board EXCEPT ![idx] = p]
             /\ turn' = turn + 1
             /\ last' = Outcome("set_cell", position, pl, "none", idx, 0)
        ELSE /\ last' = Outcome("set_cell", position, None, "Exception", NoMove, 0)
             /\ UNCHANGED <<board, turn>>

(* ---------------------------------------------------------- generate_move *)

GenerateMove ==
    /\ \E r \in generate_move(board, turn) :
          last' = Outcome("generate_move", 0, None, "none", r[2], r[1])
    /\ UNCHANGED <<board, turn>>

(* -------------------------------------------------------- specifications *)

\* set_cell(position) and set_cell(position, player)
PlayerArgs == {None, "X", "O"}

\* the call set_cell(position, ...) reaches an empty cell
ReachesEmptyCell(position) ==
    ListIndex(position) # NoMove /\ empty(board, ListIndex(position))

\* Any sequence of calls of the Board's two operations, with any arguments.
\* A call of set_cell that raises does so whatever its player argument is,
\* so one call stands for the three.
Next ==
    /\ \/ \E position \in Positions :
             \E pl \in (IF ReachesEmptyCell(position) THEN PlayerArgs ELSE {None}) :
                SetCell(position, pl)
       \/ GenerateMove
    /\ UNCHANGED movefunc

Spec == Init /\ [][Next]_vars

\* Claims of empty cells, for either player or the player up, and calls of
\* the move generator: every board is reached.
NextEngine ==
    /\ \/ \E position \in empty_cells(board), pl \in PlayerArgs :
             SetCell(position, pl)
       \/ GenerateMove
    /\ UNCHANGED movefunc

SpecEngine == Init /\ [][NextEngine]_vars

\* Claims of empty cells by the two players in turn (set_cell without a
\* player), as main makes them, and calls of the move generator.
NextGame ==
    /\ \/ \E position \in empty_cells(board) : SetCell(position, None)
       \/ GenerateMove
    /\ UNCHANGED movefunc

SpecGame == Init /\ [][NextGame]_vars

(* ------------------------------------------------------------------ main *)

\* movefunc after the test of argv[1]: 'first' and 'second' put the input of
\* a move in place of generate_move for that player, 'both' changes nothing
MoveFuncs ==
    { <<"input", "generate_move">>,
      <<"generate_move", "input">>,
      <<"generate_move", "generate_move">> }

\* main before its loop: a new Board, and movefunc
InitMain ==
    /\ board = [i \in Indexes |-> None]
    /\ turn = 0
    /\ last = [op |-> "init", position |-> 0, player |-> None,
               err |-> "none", ret |-> NoMove, tactic |-> 0]
    /\ movefunc \in MoveFuncs

\* a slip: the loop does not break when the claimed cell wins
AtLoopTopNoBreak ==
    /\ last.op \in {"init", "set_cell"}
    /\ last.err = "none"
    /\ turn < 9

\* main is about to ask movefunc[game.turn % 2] for a move: no call has
\* raised, the loop was entered or the latest claim did not win, and
\* game.turn < 9
AtLoopTop ==
    /\ last.op \in {"init", "set_cell"}
    /\ last.err = "none"
    /\ ~(last.op = "set_cell" /\ winning_move(board, last.ret))
    /\ turn < 9

\* the loop has ended: the latest claim won, or game.turn reached 9
LoopEnded ==
    /\ last.op = "set_cell"
    /\ last.err = "none"
    /\ (winning_move(board, last.ret) \/ turn >= 9)

\* movefunc[game.turn % 2]() where it is generate_move
MainGenerate ==
    /\ AtLoopTop
    /\ movefunc[(turn % 2) + 1] = "generate_move"
    /\ GenerateMove
    /\ UNCHANGED movefunc

\* game.set_cell(move) with the move generate_move returned; set_cell(None)
\* raises TypeError at self.board[None]
MainClaim ==
    /\ last.op = "generate_move"
    /\ IF last.ret = NoMove
       THEN /\ last' = Outcome("set_cell", NoMove, None, "TypeError", NoMove, 0)
            /\ UNCHANGED <<board, turn>>
       ELSE SetCell(last.ret, None)
    /\ UNCHANGED movefunc

\* game.set_cell(int(input("move? "))): any integer can be typed, and an
\* error of set_cell ends the program
MainInput ==
    /\ AtLoopTop
    /\ movefunc[(turn % 2) + 1] = "input"
    /\ \E position \in Positions : SetCell(position, None)
    /\ UNCHANGED movefunc

NextMain == MainGenerate \/ MainClaim \/ MainInput

SpecMain == InitMain /\ [][NextMain]_vars

\* The program goes on while it can; a move may never be typed.
SpecMainFair ==
    InitMain /\ [][NextMain]_vars /\ WF_vars(MainGenerate) /\ WF_vars(MainClaim)

(* ------------------------------------------------------------ properties *)

\* The 8 lines as the specification lists them: rows, columns, diagonals.
Lines == << {0, 1, 2}, {3, 4, 5}, {6, 7, 8},
            {0, 3, 6}, {1, 4, 7}, {2, 5, 8},
            {0, 4, 8}, {2, 4, 6} >>

Owned(b, p) == {i \in Indexes : b[i] = p}

Unowned(b) == {i \in Indexes : b[i] = None}

\* line L holds exactly n cells of p and is empty elsewhere
Holds(b, L, p, n) ==
    /\ Cardinality(L \cap Owned(b, p)) = n
    /\ Cardinality(L \cap Unowned(b)) = 3 - n

\* the lines, by number, that p completes by claiming their one empty cell
Threats(b, p) == {k \in 1..8 : Holds(b, Lines[k], p, 2)}

\* the empty cell of the first line p threatens, in the scan order
FirstThreatCell(b, p) ==
    CHOOSE c \in Lines[Min(Threats(b, p))] : b[c] = None

Mover == player_up(turn)

Other == IF Mover = "X" THEN "O" ELSE "X"

Called(op) == last.op = op /\ last.err = "none"

Edges == {1, 3, 5, 7}

\* C1: on a board reached by claims of the two players in turn that still
\* has an empty cell, generate_move returns the index of an empty cell
\* (never None, never an occupied cell), also when a line is complete.
C1_MoveIsEmptyCell ==
    (Called("generate_move") /\ Unowned(board) # {})
        => (last.ret \in Indexes /\ board[last.ret] = None)

\* a move was generated on a board that already holds a complete line
C1_Witness ==
    /\ Called("generate_move")
    /\ \E k \in 1..8 : Holds(board, Lines[k], "X", 3)
    /\ last.ret \in Unowned(board)

\* C2: set_cell with a position in 0..8 on an empty cell succeeds, gives
\* that cell to the player (the player up when none is given), adds 1 to
\* turn, leaves the other 8 cells alone and returns the cell at the position.
C2_ClaimEffect ==
    [][(last'.op = "set_cell" /\ last'.position \in Indexes
            /\ board[last'.position] = None)
        => /\ last'.err = "none"
           /\ last'.ret = last'.position
           /\ turn' = turn + 1
           /\ board'[last'.position] =
                 (IF last'.player = None
                  THEN (IF turn % 2 = 0 THEN "X" ELSE "O")
                  ELSE last'.player)
           /\ \A i \in Indexes \ {last'.position} : board'[i] = board[i]]_vars

\* after two claims for O, a call without a player took a cell for X, the
\* player up at turn 2
C2_Witness ==
    /\ Called("set_cell")
    /\ last.player = None
    /\ last.position \in Indexes
    /\ Cardinality(Owned(board, "O")) = 2
    /\ Owned(board, "X") = {last.position}

\* C3: set_cell on a cell that has an owner fails with an error and changes
\* neither a cell nor turn; so no step clears or changes the owner of a cell.
C3_OccupiedFails ==
    [][/\ (last'.op = "set_cell" /\ last'.position \in Indexes
              /\ board[last'.position] # None)
          => (last'.err = "Exception" /\ board' = board /\ turn' = turn)
       /\ board' # board
          => \A i \in Indexes : board[i] # None => board'[i] = board[i]]_vars

\* a claim of an owned cell has failed
C3_Witness ==
    /\ last.op = "set_cell"
    /\ last.err = "Exception"
    /\ last.position \in Indexes
    /\ board[last.position] # None

\* C4: set_cell with a position outside 0..8, negative ones included, fails
\* with an out-of-range error and changes neither a cell nor turn.
C4_OutOfRangeFails ==
    [][(last'.op = "set_cell" /\ last'.position \notin Indexes)
        => (last'.err = "IndexError" /\ board' = board /\ turn' = turn)]_vars

\* C5: turn is the number of non-empty cells, and the player up is the first
\* player when turn is even, the second when it is odd.
C5_TurnCountsCells ==
    /\ turn = Cardinality(Indexes \ Unowned(board))
    /\ player_up(turn) = (IF turn % 2 = 0 THEN "X" ELSE "O")

\* after four claims for O, the second player, and a failing call
C5_Witness ==
    /\ last.op = "set_cell"
    /\ last.err = "Exception"
    /\ turn = 4
    /\ Owned(board, "X") = {}

\* C6: after a successful set_cell returning cell c, winning_move(c) is true
\* exactly when one of the 8 lines contains c and is owned by c's owner.
C6_WinningMoveIffLine ==
    Called("set_cell")
        => (winning_move(board, last.ret)
              <=> \E k \in 1..8 :
                     /\ last.ret \in Lines[k]
                     /\ \A j \in Lines[k] : board[j] = board[last.ret])

\* the claim completed a line (and the board holds a complete line of the
\* other player that the claimed cell is not on)
C6_Witness ==
    /\ Called("set_cell")
    /\ winning_move(board, last.ret)
    /\ \E k \in 1..8 : Holds(board, Lines[k], opponent(board[last.ret]), 3)

\* C7: when the player to move has a line with 2 own cells and 1 empty
\* cell, generate_move returns the empty cell of the first such line in the
\* order rows, columns, diagonals, and claiming it completes a line, also
\* when the opponent has such a line too.
C7_TakesWin ==
    (Called("generate_move") /\ Threats(board, Mover) # {})
        => /\ last.ret = FirstThreatCell(board, Mover)
           /\ \E k \in 1..8 :
                 /\ last.ret \in Lines[k]
                 /\ \A j \in Lines[k] \ {last.ret} : board[j] = Mover

\* both players threaten, on different cells, and the mover's win is taken
C7_Witness ==
    /\ Called("generate_move")
    /\ Threats(board, Mover) # {}
    /\ Threats(board, Other) # {}
    /\ Min(Threats(board, Other)) < Min(Threats(board, Mover))
    /\ last.ret = FirstThreatCell(board, Mover)
    /\ last.ret # FirstThreatCell(board, Other)

\* C8: on a non-empty board where the player to move has no line with 2 own
\* cells and 1 empty cell and the opponent has one, generate_move returns the
\* empty cell of the first such line of the opponent in the scan order.
C8_BlocksWin ==
    (Called("generate_move") /\ turn # 0
        /\ Threats(board, Mover) = {} /\ Threats(board, Other) # {})
        => last.ret = FirstThreatCell(board, Other)

\* the opponent threatens on two lines, the mover could also fork, and the
\* first threat is blocked
C8_Witness ==
    /\ Called("generate_move")
    /\ Threats(board, Mover) = {}
    /\ Cardinality(Threats(board, Other)) >= 2
    /\ \E c \in Unowned(board) : move_makes_fork(board, c, Mover)
    /\ last.ret = FirstThreatCell(board, Other)
    /\ last.tactic = 3

\* the board after p claims the empty cell c
After(b, c, p) == [b EXCEPT ![c] = p]

\* the lines holding exactly n cells of p and no cell of the other player
LinesHolding(b, p, n) == {k \in 1..8 : Holds(b, Lines[k], p, n)}

\* rules 1 to 3 do not apply and a move was generated
RulesOneToThreeSkipped ==
    /\ Called("generate_move")
    /\ turn # 0
    /\ Threats(board, Mover) = {}
    /\ Threats(board, Other) = {}

\* the create-fork rule returned the lowest cell of S, nothing when S is empty
CreateForkReturns(S) ==
    IF S = {} THEN last.tactic # 4 ELSE last.tactic = 4 /\ last.ret = Min(S)

\* C9 as stated: the create-fork rule returns the lowest empty cell c such
\* that, after the mover claims c, the mover has at least 2 lines with exactly
\* 1 mover cell and 2 empty cells (counted over the board, or over the lines
\* through c), and nothing when there is no such cell.
C9_Original ==
    RulesOneToThreeSkipped
        => \/ CreateForkReturns({c \in Unowned(board) :
                 Cardinality(LinesHolding(After(board, c, Mover), Mover, 1)) >= 2})
           \/ CreateForkReturns({c \in Unowned(board) :
                 Cardinality({k \in LinesHolding(After(board, c, Mover), Mover, 1) :
                                 c \in Lines[k]}) >= 2})

\* C9, amended: when rules 1 to 3 do not apply, the create-fork rule returns
\* the lowest empty cell c such that, after the mover claims c, the mover has
\* at least 2 lines with exactly 2 mover cells and 1 empty cell, and nothing
\* when there is no such cell.
C9_CreateFork ==
    RulesOneToThreeSkipped
        => CreateForkReturns({c \in Unowned(board) :
              Cardinality(LinesHolding(After(board, c, Mover), Mover, 2)) >= 2})

\* the rule returned a cell that is not the lowest empty cell, while a lower
\* empty cell leaves 2 lines with 1 mover cell and 2 empty cells
C9_Witness ==
    /\ RulesOneToThreeSkipped
    /\ last.tactic = 4
    /\ \E c \in Unowned(board) :
          /\ c < last.ret
          /\ Cardinality(LinesHolding(After(board, c, Mover), Mover, 1)) >= 2
    /\ Cardinality(LinesHolding(After(board, last.ret, Mover), Mover, 2)) >= 2

\* player p holds the centre and the other player both ends of a diagonal,
\* on a board with 6 empty cells
DiagonalFork(b, p) ==
    /\ Cardinality(Unowned(b)) = 6
    /\ b[4] = p
    /\ \/ Owned(b, IF p = "X" THEN "O" ELSE "X") = {0, 8}
       \/ Owned(b, IF p = "X" THEN "O" ELSE "X") = {2, 6}

\* C10 as stated: with 6 empty cells, the mover in the centre and the
\* opponent on both ends of a diagonal, generate_move returns one of 1, 3, 5,
\* 7, whichever of X and O is the mover (X in the centre against O at 0, 8).
C10_Original ==
    (Called("generate_move") /\ \E p \in {"X", "O"} : DiagonalFork(board, p))
        => last.ret \in Edges

\* C10, amended: with 6 empty cells, the player up in the centre and the
\* opponent on both ends of a diagonal, generate_move returns one of 1, 3, 5,
\* 7; the player up on such a board is the second player, O.
C10_BlocksDiagonalFork ==
    (Called("generate_move") /\ DiagonalFork(board, Mover))
        => (last.ret \in Edges /\ Mover = "O")

\* the rule produced an edge for O in the centre against X at 2 and 6
C10_Witness ==
    /\ Called("generate_move")
    /\ DiagonalFork(board, "O")
    /\ Owned(board, "X") = {2, 6}
    /\ last.tactic = 5
    /\ last.ret = 7

\* the cells of S in the order 4, 0, 2, 6, 8, 1, 3, 5, 7: the first of them
FirstPreferred(S) ==
    LET order == <<4, 0, 2, 6, 8, 1, 3, 5, 7>>
    IN  order[Min({k \in 1..9 : order[k] \in S})]

\* the empty cells on a line that holds no cell of the opponent
StillWinnable(b, opp) ==
    {c \in Unowned(b) : \E k \in 1..8 : c \in Lines[k] /\ Lines[k] \cap Owned(b, opp) = {}}

\* C11: when none of rules 1 to 6 yields a move and a cell is empty,
\* generate_move returns the first cell in the order 4, 0, 2, 6, 8, 1, 3, 5, 7
\* that is empty and on a line without a cell of the opponent, and the first
\* empty cell in that order when no empty cell is on such a line.
C11_DefaultMove ==
    (Called("generate_move") /\ last.tactic \notin 1..6 /\ Unowned(board) # {})
        => last.ret = (IF StillWinnable(board, Other) # {}
                       THEN FirstPreferred(StillWinnable(board, Other))
                       ELSE FirstPreferred(Unowned(board)))

\* the default rule passed over an empty cell earlier in the order because
\* all its lines hold a cell of the opponent
C11_Witness ==
    /\ Called("generate_move")
    /\ last.tactic = 7
    /\ StillWinnable(board, Other) # {}
    /\ last.ret # FirstPreferred(Unowned(board))

\* C12: on the empty board generate_move returns one of the corners 0, 2, 6,
\* 8, and the opening rule yields a move on no other board.
C12_OpeningCorner ==
    /\ (Called("generate_move") /\ Unowned(board) = Indexes)
          => (last.ret \in {0, 2, 6, 8} /\ last.tactic = 1)
    /\ (Called("generate_move") /\ last.tactic = 1) => Unowned(board) = Indexes

\* the opening rule returned corner 6
C12_Witness ==
    /\ Called("generate_move")
    /\ Unowned(board) = Indexes
    /\ last.tactic = 1
    /\ last.ret = 6

\* C13: generate_move on a board without an empty cell ends in an error,
\* not in a returned result.
C13_FullBoardFails ==
    (last.op = "generate_move" /\ Unowned(board) = {}) => last.err # "none"

\* C14: outside rule 1 (the empty board) and rule 5, two calls of
\* generate_move on the same board, which has an empty cell, return the same
\* cell.
C14_Deterministic ==
    [][(/\ Called("generate_move") /\ last'.op = "generate_move"
        /\ board' = board
        /\ Unowned(board) # {} /\ Unowned(board) # Indexes
        /\ last.tactic # 5 /\ last'.tactic # 5)
        => last'.ret = last.ret]_vars

\* a move that is neither an opening nor a diagonal-fork block was generated
\* on a board where rule 4 finds several forking cells
C14_Witness ==
    /\ Called("generate_move")
    /\ last.tactic = 4
    /\ Cardinality({c \in Unowned(board) : move_makes_fork(board, c, Mover)}) >= 2

\* C16: when the move comes from the create-fork rule, claiming it gives the
\* mover at least two lines with exactly 2 mover cells and 1 empty cell, and
\* no single reply of the opponent takes the empty cell of all of them.
C16_ForkIsFork ==
    (Called("generate_move") /\ last.tactic = 4)
        => LET b == After(board, last.ret, Mover)
           IN  /\ Cardinality(LinesHolding(b, Mover, 2)) >= 2
               /\ \A c \in Unowned(b) : LinesHolding(After(b, c, Other), Mover, 2) # {}

\* the create-fork rule produced a move on a board of a game
C16_Witness ==
    /\ Called("generate_move")
    /\ last.tactic = 4
    /\ Cardinality(Owned(board, "X")) - Cardinality(Owned(board, "O")) \in {0, 1}
    /\ Cardinality(LinesHolding(After(board, last.ret, Mover), Mover, 2)) = 2

\* the cells a set of <<tactic, move>> pairs returns
Moves(rs) == {r[2] : r \in rs}

\* no line of the board is owned by one player
NoLineComplete(b) ==
    \A k \in 1..8 : ~Holds(b, Lines[k], "X", 3) /\ ~Holds(b, Lines[k], "O", 3)

\* C17 as stated: on every board of a game that has an empty cell (and no
\* complete line), generate_move with the fork test count == 2 in the
\* create-fork and block-fork rules has the same possible results as
\* generate_move with the test count >= 2.
C17_Original ==
    (Unowned(board) # {} /\ NoLineComplete(board))
        => Moves(generate_move_exact({4, 6}, board, turn))
              = Moves(generate_move(board, turn))

\* C17, amended: on every board of a game that has an empty cell,
\* generate_move with the fork test count == 2 in the create-fork rule has
\* the same possible results as generate_move with the test count >= 2, and
\* the create-fork rule itself returns the same.
C17_CreateForkUnchanged ==
    Unowned(board) # {}
        => /\ Moves(generate_move_exact({4}, board, turn))
                 = Moves(generate_move(board, turn))
           /\ create_fork_exact(board, turn) = create_fork(board, turn)

\* a board without a complete line where the test count == 2 changes the
\* block-fork rule, and with it the move, and leaves the create-fork rule
C17_Witness ==
    /\ Unowned(board) # {}
    /\ NoLineComplete(board)
    /\ block_fork_exact(board, turn) # block_fork(board, turn)
    /\ Moves(generate_move_exact({4, 6}, board, turn))
          # Moves(generate_move(board, turn))
    /\ Moves(generate_move_exact({4}, board, turn))
          = Moves(generate_move(board, turn))

\* both players are driven by generate_move
BothEngines == movefunc = <<"generate_move", "generate_move">>

\* the marks of the players whose moves are typed
TypedMarks == {players[i] : i \in {j \in 1..2 : movefunc[j] = "input"}}

\* the player owns a whole line
HasLine(b, p) == \E k \in 1..8 : Holds(b, Lines[k], p, 3)

\* C15: with both players driven by generate_move the game loop ends: at
\* most 9 claims are made and each succeeds, nothing is claimed after a claim
\* for which winning_move is true nor after turn has reached 9, and the loop
\* does end, after a winning claim or with turn = 9.
C15_LoopTerminates ==
    /\ [](BothEngines => (turn <= 9 /\ last.err = "none"))
    /\ [][(Called("set_cell") /\ (winning_move(board, last.ret) \/ turn = 9))
             => UNCHANGED vars]_vars
    /\ (BothEngines => <>(Called("set_cell")
                            /\ (winning_move(board, last.ret) \/ turn = 9)))

\* the loop of two engines has ended after 9 claims
C15_Witness ==
    /\ BothEngines
    /\ LoopEnded
    /\ turn = 9
    /\ Unowned(board) = {}

\* C18: when one side is driven by generate_move and the moves of the other
\* side are typed, the typed side never owns a line, and a game that ends
\* ends with a line of the engine or with a full board and no line.
C18_EngineNeverLoses ==
    /\ \A p \in TypedMarks : ~HasLine(board, p)
    /\ (LoopEnded /\ TypedMarks # {})
          => \/ \E p \in {"X", "O"} \ TypedMarks : HasLine(board, p)
             \/ (turn = 9 /\ NoLineComplete(board))

\* the engine, moving second, has won against typed moves
C18_Witness ==
    /\ movefunc = <<"input", "generate_move">>
    /\ LoopEnded
    /\ HasLine(board, "O")
    /\ turn = 6

\* C19: with both players driven by generate_move every game is a draw:
\* winning_move is false after each claim, and turn reaches 9.
C19_BothDraw ==
    BothEngines
        => /\ [](Called("set_cell") => ~winning_move(board, last.ret))
           /\ [](NoLineComplete(board))
           /\ <>(turn = 9)

\* the game of two engines ended in a draw after the diagonal-fork block:
\* X opened at 8 and took 0, O in the centre answered with edge 7
C19_Witness ==
    /\ BothEngines
    /\ turn = 9
    /\ NoLineComplete(board)
    /\ Owned(board, "X") = {8, 0, 1, 6, 5}

====
